---- MODULE Spec2Model ----
(***************************************************************************)
(* Model of the GeosysPy client: the satellite coverage query              *)
(* (MapProductService.get_satellite_coverage), the raster time-series      *)
(* assembly (Geosys.__get_images_as_dataset) and the public entry points   *)
(* that lead to them (get_satellite_image_time_series,                     *)
(* get_satellite_coverage_image_references), the task status polling      *)
(* (AnalyticsProcessorService.wait_and_check_task_status) and the token    *)
(* renewal around the HttpClient methods (renew_access_token), the methods *)
(* of Geosys that wait for a task and fetch its outcome, get_time_series   *)
(* with WeatherService.get_weather, the weather indicators builder, the    *)
(* construction of Oauth2Api and AnalyticsFabricService.get_metrics.  The  *)
(* remote API is the environment: every HTTP response is an input chosen   *)
(* from a small set.                                                       *)
(***************************************************************************)
EXTENDS Integers, Sequences, FiniteSets, TLC

VARIABLES
    pc,                 \* position of the running call ("idle" when none)
    op,                 \* the public method running
    polygon,            \* argument polygon
    season_field_id,    \* argument season_field_id
    collections,        \* argument collections
    indicator,          \* indicators[0]
    attempt_number,     \* retrying: attempts of the decorated method so far
    requests,           \* log of the HTTP requests sent, in order
    responses,          \* status codes of the responses, one per request
    catalog,            \* the catalog response body as received
    df_coverage,        \* the coverage dataframe (rows in order)
    df_none,            \* TRUE when get_satellite_coverage returned None
    k,                  \* loop index of the download / decode loops
    dict_archives,      \* ordered dict image id -> archive data
    first_img_id,       \* df_coverage.iloc[0]["image.id"]
    list_xarr,          \* the DataArrays appended so far
    list_crs,           \* the rasters' CRS strings appended so far
    ret,                \* kind of value returned ("" while none)
    dataset,            \* the xarray Dataset returned
    images_references,  \* the dict returned by the coverage references call
    task_status,        \* wait_and_check_task_status: the status last parsed
    access_token,       \* HttpClient.access_token
    session_token,      \* token held by the OAuth2Session HttpClient sends with
    attempts,           \* HttpClient: the sends of the wrapped method so far
    args,               \* arguments of the running service call
    result,             \* value a service call returned (a list)
    fields,             \* the list passed as `fields` to get_weather
    error               \* exception that reached the caller ("" when none)

vars == <<pc, op, polygon, season_field_id, collections, indicator,
          attempt_number, requests, responses, catalog, df_coverage, df_none,
          k, dict_archives, first_img_id, list_xarr, list_crs, ret, dataset,
          images_references, task_status, access_token, session_token,
          attempts, args, result, fields, error>>

-----------------------------------------------------------------------------
(* Bounds of the model *)

\* most records in one catalog response
MaxRecords == 3
\* most entries in one downloaded zip archive
MaxEntries == 2
\* last day of the calendar the dates are taken from (days 0..MaxDay)
MaxDay == 2

\* longest fields list a caller of get_weather starts with
MaxFields == 2

-----------------------------------------------------------------------------
(* Values *)

None == "<None>"

\* Python truthiness of an optional string argument: `not v`
Not(v) == v = None \/ v = ""

SatelliteImageryCollection == {"MODIS", "SENTINEL_2", "LANDSAT_8", "LANDSAT_9"}
LR_SATELLITE_COLLECTION == {"MODIS"}
WeatherTypeCollection ==
    {"WEATHER_FORECAST_DAILY", "WEATHER_FORECAST_HOURLY",
     "WEATHER_HISTORICAL_DAILY"}
MR_SATELLITE_COLLECTION == {"LANDSAT_8", "LANDSAT_9", "SENTINEL_2"}

\* retrying.retry(stop_max_attempt_number=50)
stop_max_attempt_number == 50

\* str.upper() / str.lower() on the indicator names used
upper(s) ==
    CASE s = "Reflectance" -> "REFLECTANCE"
      [] s = "reflectance" -> "REFLECTANCE"
      [] s = "ndvi"        -> "NDVI"
      [] OTHER             -> s

lower(s) ==
    CASE s = "Reflectance" -> "reflectance"
      [] s = "REFLECTANCE" -> "reflectance"
      [] s = "NDVI"        -> "ndvi"
      [] OTHER             -> s

\* pd.to_datetime on the catalog's date strings: days since the epoch
to_datetime(s) ==
    CASE s = "2020-01-01" -> 18262
      [] s = "2020-01-02" -> 18263
      [] s = "2020-01-03" -> 18264

Range(s) == {s[i] : i \in DOMAIN s}

-----------------------------------------------------------------------------
(* Inputs: the remote catalog and the downloadable archives *)

S2Bands == <<"Red", "Green", "Blue", "Nir">>
L8Bands == <<"Red", "Green", "Blue", "Nir">>

\* The images the remote catalog knows (image ids are catalog-unique).
ImageCatalog == {
    [id |-> "IMG_A", date |-> "2020-01-01", sensor |-> "SENTINEL_2",
     spatialResolution |-> 10, availableBands |-> S2Bands, seasonField |-> "sf1"],
    [id |-> "IMG_B", date |-> "2020-01-01", sensor |-> "LANDSAT_8",
     spatialResolution |-> 30, availableBands |-> L8Bands, seasonField |-> "sf1"],
    [id |-> "IMG_C", date |-> "2020-01-02", sensor |-> "SENTINEL_2",
     spatialResolution |-> 10, availableBands |-> S2Bands, seasonField |-> "sf1"] }

\* A catalog response body: distinct catalog images in any order.
CatalogBodies ==
    UNION { { s \in [1..n -> ImageCatalog] :
                \A i, j \in 1..n : i # j => s[i].id # s[j].id } :
            n \in 0..MaxRecords }

\* A second SENTINEL_2 image of 2020-01-02 (another acquisition of the day).
SameDayImage ==
    [id |-> "IMG_D", date |-> "2020-01-02", sensor |-> "SENTINEL_2",
     spatialResolution |-> 10, availableBands |-> S2Bands, seasonField |-> "sf1"]

\* Catalog response bodies of the coverage references call, which ends with
\* the catalog's answer: distinct images of the catalog and SameDayImage.
ReferencesBodies ==
    UNION { { s \in [1..n -> ImageCatalog \cup {SameDayImage}] :
                \A i, j \in 1..n : i # j => s[i].id # s[j].id } :
            n \in 0..MaxRecords }

\* Raster files: width, height, affine transform (a, b, c, d, e, f), CRS.
RasterFine ==
    [width |-> 4, height |-> 4, a |-> 10, b |-> 0, c |-> 0,
     d |-> 0, e |-> -10, f |-> 100, crs |-> "EPSG:32631"]
RasterCoarse ==
    [width |-> 2, height |-> 2, a |-> 20, b |-> 0, c |-> 0,
     d |-> 0, e |-> -20, f |-> 100, crs |-> "EPSG:32632"]

\* Entries a zip archive may hold.
ZipEntries == {
    [name |-> "fine.tif",   tif |-> TRUE,  raster |-> RasterFine],
    [name |-> "coarse.tif", tif |-> TRUE,  raster |-> RasterCoarse],
    [name |-> "readme.txt", tif |-> FALSE, raster |-> RasterFine] }

Archives == UNION { [1..n -> ZipEntries] : n \in 0..MaxEntries }

\* HTTP status codes the environment answers with
StatusCodes == {200, 500}

\* recorded in place of a status when the request raised and no response
\* came back
NoResponse == 0

-----------------------------------------------------------------------------
(* Pure functions of the code *)

\* key of DataFrame.sort_values(by=["image.spatialResolution", "image.date"])
KeyLeq(r1, r2) ==
    \/ r1.spatialResolution < r2.spatialResolution
    \/ /\ r1.spatialResolution = r2.spatialResolution
       /\ r1.date <= r2.date

\* stable insertion of row r into the sorted sequence s
RECURSIVE SortedInsert(_, _)
SortedInsert(r, s) ==
    IF s = <<>> THEN <<r>>
    ELSE IF KeyLeq(Head(s), r) THEN <<Head(s)>> \o SortedInsert(r, Tail(s))
         ELSE <<r>> \o s

RECURSIVE sort_values(_)
sort_values(df) ==
    IF df = <<>> THEN <<>>
    ELSE SortedInsert(df[Len(df)], sort_values(SubSeq(df, 1, Len(df) - 1)))

\* keep="last" instead of keep="first"
drop_duplicates_last(df) ==
    LET keep(i) == \A j \in (i + 1)..Len(df) : df[j].date # df[i].date
        kept    == SelectSeq([i \in DOMAIN df |-> i], keep)
    IN  [j \in DOMAIN kept |-> df[kept[j]]]

\* DataFrame.drop_duplicates(subset="image.date", keep="first")
drop_duplicates(df) ==
    LET keep(i) == \A j \in 1..(i - 1) : df[j].date # df[i].date
        kept    == SelectSeq([i \in DOMAIN df |-> i], keep)
    IN  [j \in DOMAIN kept |-> df[kept[j]]]

\* df_coverage["image.date"] = pd.to_datetime(df_coverage["image.date"])
ConvertDates(df) == [i \in DOMAIN df |-> [df[i] EXCEPT !.date = to_datetime(@)]]

\* the selection without drop_duplicates
SelectCoverage_NoDedup(df) == sort_values(ConvertDates(df))

\* the coverage selection of __get_images_as_dataset
SelectCoverage(df) == drop_duplicates(sort_values(ConvertDates(df)))

\* get_coordinates_by_pixel: pixel-centre coordinates of the first row (x)
\* and of the first column (y), from the affine transform
get_coordinates_by_pixel(raster) ==
    [x |-> [col \in 1..raster.width |->
              (raster.a * (2 * (col - 1) + 1) + raster.b + 2 * raster.c) \div 2],
     y |-> [row \in 1..raster.height |->
              (raster.d + raster.e * (2 * (row - 1) + 1) + 2 * raster.f) \div 2]]


\* an ordered dict: assignment d[key] = val
DictPut(d, key, val) ==
    IF \E i \in DOMAIN d : d[i].key = key
    THEN [i \in DOMAIN d |-> IF d[i].key = key THEN [key |-> key, val |-> val]
                                               ELSE d[i]]
    ELSE Append(d, [key |-> key, val |-> val])

\* xr.DataArray(raster.read(masked=True), dims=["band", "y", "x"], coords=...)
\* `data` stands for the pixel values: the image and raster file they come from
DataArray(raster, img_id, dict_data, dict_coords) ==
    [band   |-> dict_data.bands,
     y      |-> dict_coords.y,
     x      |-> dict_coords.x,
     time   |-> dict_data.date,
     data   |-> [img |-> img_id, crs |-> raster.crs,
                 native_x |-> dict_coords.x, native_y |-> dict_coords.y],
     interp |-> FALSE]

\* xarr.interp(x=..., y=..., method="linear"): the values are resampled onto
\* the given coordinates, which become the array's coordinates
interp(xarr, x, y) == [xarr EXCEPT !.x = x, !.y = y, !.interp = TRUE]

\* The inner loop `for image in images_in_bytes` for one archive.
RECURSIVE DecodeImages(_, _, _, _, _, _)
DecodeImages(images, img_id, dict_data, first_id, lx, lc) ==
    IF images = <<>> THEN [xarr |-> lx, crs |-> lc, error |-> ""]
    ELSE LET raster == Head(images).raster
             xarr   == DataArray(raster, img_id, dict_data,
                                 get_coordinates_by_pixel(raster))
         IN  IF img_id = first_id
             THEN DecodeImages(Tail(images), img_id, dict_data, first_id,
                               Append(lx, xarr), Append(lc, raster.crs))
             ELSE IF lx = <<>>
                  THEN [xarr |-> lx, crs |-> lc, error |-> "IndexError"]
                  ELSE DecodeImages(Tail(images), img_id, dict_data, first_id,
                                    Append(lx, interp(xarr, lx[1].x, lx[1].y)),
                                    Append(lc, raster.crs))

\* [archive.read(file) for file in archive.namelist() if file.endswith(".tif")]
images_in_bytes(archive) == SelectSeq(archive, LAMBDA entry : entry.tif)

\* ascending sequence of the numbers of a finite set
RECURSIVE SortedSeq(_)
SortedSeq(S) ==
    IF S = {} THEN <<>>
    ELSE LET m == CHOOSE v \in S : \A w \in S : v <= w
         IN  <<m>> \o SortedSeq(S \ {m})

\* the index xr.concat gives a dimension it does not concatenate along
\* (join="outer"): the common index when all are equal, else their union
OuterJoin(indexes) ==
    IF \A i \in DOMAIN indexes : indexes[i] = indexes[1]
    THEN indexes[1]
    ELSE SortedSeq(UNION { Range(indexes[i]) : i \in DOMAIN indexes })

EmptyDataset ==
    [var |-> "", time |-> <<>>, x |-> <<>>, y |-> <<>>, slots |-> <<>>,
     image_id |-> <<>>, sensor |-> <<>>, spatialResolution |-> <<>>,
     crs |-> <<>>]

\* xr.concat(list_xarr, "time"), xr.Dataset(...), dataset.assign_coords(...)
\* with df_coverage["crs"] = list_crs already checked to fit
BuildDataset(ind, lx, df, lc) ==
    [var   |-> lower(ind),
     time  |-> [i \in DOMAIN lx |-> lx[i].time],
     x     |-> OuterJoin([i \in DOMAIN lx |-> lx[i].x]),
     y     |-> OuterJoin([i \in DOMAIN lx |-> lx[i].y]),
     slots |-> lx,
     image_id          |-> [i \in DOMAIN df |-> df[i].id],
     sensor            |-> [i \in DOMAIN df |-> df[i].sensor],
     spatialResolution |-> [i \in DOMAIN df |-> df[i].spatialResolution],
     crs               |-> lc]

\* map_type of get_satellite_coverage
MapType(ind) ==
    IF ind = "" \/ upper(ind) = "REFLECTANCE" \/ upper(ind) = "NDVI"
    THEN "NDVI" ELSE upper(ind)

-----------------------------------------------------------------------------
(* Arguments the callers pass *)

Polygons == {None, "POLYGON((0 0,0 1,1 1,0 0))"}
SeasonFieldIds == {None, "sf1"}

NoneList == [none |-> TRUE, elems |-> <<>>]
List(s) == [none |-> FALSE, elems |-> s]

\* `not collections`
NotList(l) == l.none \/ l.elems = <<>>

ReferencesCollections == { List(<<"SENTINEL_2", "LANDSAT_8">>), NoneList }

\* The calls of get_satellite_image_time_series: every branch of its
\* validation and dispatch, and for the branches that reach the assembly
\* each polygon / season field combination, both indicators and both ways
\* of naming the collections.
TimeSeriesCalls ==
    LET P == "POLYGON((0 0,0 1,1 1,0 0))"
        MR == List(<<"SENTINEL_2", "LANDSAT_8">>)
        Call(p, sf, coll, ind) ==
            [polygon |-> p, season_field_id |-> sf, collections |-> coll,
             indicator |-> ind]
    IN  { Call(None, None, MR, "NDVI"),
          Call(None, None, List(<<>>), "Reflectance"),
          Call(P, None, MR, "NDVI"),
          Call(None, "sf1", MR, "Reflectance"),
          Call(P, "sf1", List(<<>>), "NDVI"),
          Call(P, None, List(<<"MODIS">>), "NDVI"),
          Call(None, "sf1", List(<<"MODIS">>), "Reflectance"),
          Call(P, "sf1", List(<<"MODIS", "SENTINEL_2">>), "NDVI"),
          Call(P, None, List(<<"sentinel-2">>), "NDVI") }

-----------------------------------------------------------------------------
(* State *)

\* no service call is running
NoArgs == [none |-> TRUE]

Init ==
    /\ pc = "idle"
    /\ op = ""
    /\ polygon = None
    /\ season_field_id = None
    /\ collections = NoneList
    /\ indicator = ""
    /\ attempt_number = 0
    /\ requests = <<>>
    /\ responses = <<>>
    /\ catalog = <<>>
    /\ df_coverage = <<>>
    /\ df_none = FALSE
    /\ k = 0
    /\ dict_archives = <<>>
    /\ first_img_id = ""
    /\ list_xarr = <<>>
    /\ list_crs = <<>>
    /\ ret = ""
    /\ dataset = EmptyDataset
    /\ images_references = <<>>
    /\ task_status = ""
    /\ access_token = "token_1"
    /\ session_token = "token_1"
    /\ attempts = <<>>
    /\ args = NoArgs
    /\ result = <<>>
    /\ fields = <<>>
    /\ error = ""

\* the lists of rasters outlive the call
NoLocals_StaleLists ==
    /\ attempt_number' = 0
    /\ requests' = <<>>
    /\ responses' = <<>>
    /\ catalog' = <<>>
    /\ df_coverage' = <<>>
    /\ df_none' = FALSE
    /\ k' = 0
    /\ dict_archives' = <<>>
    /\ first_img_id' = ""
    /\ UNCHANGED <<list_xarr, list_crs>>
    /\ dataset' = EmptyDataset
    /\ images_references' = <<>>
    /\ task_status' = ""
    /\ attempts' = <<>>
    /\ result' = <<>>

\* the locals of a call that has not reached the coverage query
NoLocals ==
    /\ attempt_number' = 0
    /\ requests' = <<>>
    /\ responses' = <<>>
    /\ catalog' = <<>>
    /\ df_coverage' = <<>>
    /\ df_none' = FALSE
    /\ k' = 0
    /\ dict_archives' = <<>>
    /\ first_img_id' = ""
    /\ list_xarr' = <<>>
    /\ list_crs' = <<>>
    /\ dataset' = EmptyDataset
    /\ images_references' = <<>>
    /\ task_status' = ""
    /\ attempts' = <<>>
    /\ result' = <<>>

Raise(exc) == pc' = "raised" /\ error' = exc /\ ret' = ""
Return(kind) == pc' = "returned" /\ ret' = kind /\ error' = ""
Goto(label) == pc' = label /\ ret' = "" /\ error' = ""


-----------------------------------------------------------------------------
(* The HTTP requests *)

\* payload of get_satellite_coverage: the id when given, else the geometry
CoveragePayload(sf) == IF Not(sf) THEN "geometry" ELSE "id"

\* sensors_collection passed by the caller of get_satellite_coverage
SensorsCollection ==
    IF op = "get_satellite_image_time_series" /\ NotList(collections)
    THEN NoneList ELSE collections

CatalogRequest ==
    [kind |-> "catalog", map_type |-> MapType(indicator),
     sensors |-> SensorsCollection, payload |-> CoveragePayload(season_field_id),
     image |-> ""]

\* payload of get_zipped_tiff
TiffPayload(field_id) == IF Not(field_id) THEN "geometry" ELSE "id"

TiffRequest(row) ==
    [kind |-> "tiff",
     map_type |-> IF indicator # "" /\ upper(indicator) # "REFLECTANCE"
                  THEN upper(indicator) ELSE "TOC",
     sensors |-> NoneList, payload |-> TiffPayload(row.seasonField),
     image |-> row.id]

MdmRequest(what) ==
    [kind |-> what, map_type |-> "", sensors |-> NoneList,
     payload |-> IF what = "mdm_create" THEN "geometry" ELSE "id", image |-> ""]

VtsRequest ==
    [kind |-> IF op = "get_time_series" THEN "vts_modis" ELSE "vts_pixels",
     map_type |-> indicator, sensors |-> NoneList,
     payload |-> "id", image |-> ""]

-----------------------------------------------------------------------------
(* Geosys.get_satellite_image_time_series: validation and dispatch *)

\* `or` in place of `and`: a call giving only one of the two is refused
RegionMissing_Either(sf, p) == Not(sf) \/ Not(p)

\* `if not season_field_id and not polygon: raise ValueError(...)`
RegionMissing(sf, p) == Not(sf) /\ Not(p)

get_satellite_image_time_series(p, sf, coll, ind) ==
    /\ pc = "idle"
    /\ op' = "get_satellite_image_time_series"
    /\ polygon' = p
    /\ season_field_id' = sf
    /\ collections' = coll
    /\ indicator' = ind
    /\ NoLocals
    /\ args' = NoArgs
    /\ fields' = <<>>
    /\ UNCHANGED <<access_token, session_token>>
    /\ IF RegionMissing(sf, p)
       THEN Raise("ValueError")
       ELSE IF NotList(coll)
       THEN Goto("coverage")
       ELSE IF \A elem \in Range(coll.elems) : elem \in SatelliteImageryCollection
       THEN IF Range(coll.elems) \subseteq LR_SATELLITE_COLLECTION
            THEN IF Not(sf) THEN Goto("mdm_create") ELSE Goto("mdm_check")
            ELSE IF Range(coll.elems) \subseteq MR_SATELLITE_COLLECTION
            THEN Goto("coverage")
            ELSE Return("None")
       ELSE Raise("TypeError")

\* responses of the season field creation request: the status, whether the
\* error body names sowingDate, and whether its message holds " Id: <id>,"
MdmCreateResponses ==
    { [status |-> 201, sowingDate |-> FALSE, match |-> FALSE],
      [status |-> 400, sowingDate |-> TRUE,  match |-> TRUE],
      [status |-> 400, sowingDate |-> TRUE,  match |-> FALSE],
      [status |-> 400, sowingDate |-> FALSE, match |-> FALSE],
      [status |-> 500, sowingDate |-> FALSE, match |-> FALSE] }

\* extract_season_field_id(polygon): the season field creation request
extract_season_field_id ==
    /\ pc = "mdm_create"
    /\ requests' = Append(requests, MdmRequest("mdm_create"))
    /\ \E response \in MdmCreateResponses :
         /\ responses' = Append(responses, response.status)
         /\ IF response.status = 400 /\ response.sowingDate
            THEN IF response.match
                 THEN season_field_id' = "sf1" /\ Goto("vts")
                 ELSE Raise("IndexError") /\ UNCHANGED season_field_id
            ELSE IF response.status = 201
                 THEN season_field_id' = "sf1" /\ Goto("vts")
                 ELSE Raise("ValueError") /\ UNCHANGED season_field_id
    /\ UNCHANGED <<op, polygon, collections, indicator, attempt_number,
                   catalog, df_coverage, df_none, k, dict_archives,
                   first_img_id, list_xarr, list_crs, dataset,
                   images_references, task_status, access_token, session_token, attempts,
                   args, result, fields>>

\* every season field is taken to exist
SeasonFieldExists_Always(status) == TRUE

\* check_season_field_exists: True for status 200, else False
SeasonFieldExists(status) == status = 200

\* check_season_field_exists(season_field_id)
check_season_field_exists ==
    /\ pc = "mdm_check"
    /\ requests' = Append(requests, MdmRequest("mdm_get"))
    /\ \E status \in StatusCodes :
         /\ responses' = Append(responses, status)
         /\ IF SeasonFieldExists(status) THEN Goto("vts")
                                         ELSE Raise("ValueError")
    /\ UNCHANGED <<op, polygon, season_field_id, collections, indicator,
                   attempt_number, catalog, df_coverage, df_none, k,
                   dict_archives, first_img_id, list_xarr, list_crs, dataset,
                   images_references, task_status, access_token, session_token, attempts,
                   args, result, fields>>

\* VegetationTimeSeriesService.get_time_series_by_pixel, and
\* get_modis_time_series when get_time_series asks
get_time_series_by_pixel ==
    /\ pc = "vts"
    /\ requests' = Append(requests, VtsRequest)
    /\ \E status \in StatusCodes :
         /\ responses' = Append(responses, status)
         /\ IF status = 200 THEN Return("DataFrame") ELSE Return("None")
    /\ UNCHANGED <<op, polygon, season_field_id, collections, indicator,
                   attempt_number, catalog, df_coverage, df_none, k,
                   dict_archives, first_img_id, list_xarr, list_crs, dataset,
                   images_references, task_status, access_token, session_token, attempts,
                   args, result, fields>>


-----------------------------------------------------------------------------
(* Geosys.get_satellite_coverage_image_references, under retrying.retry *)

\* the call: the decorator starts the first attempt
get_satellite_coverage_image_references(p, sf, coll) ==
    /\ pc = "idle"
    /\ op' = "get_satellite_coverage_image_references"
    /\ polygon' = p
    /\ season_field_id' = sf
    /\ collections' = coll
    /\ indicator' = ""
    /\ NoLocals
    /\ args' = NoArgs
    /\ fields' = <<>>
    /\ UNCHANGED <<access_token, session_token>>
    /\ Goto("references")

\* images_references[(date, sensor)] = ImageReference(...) for each row
RECURSIVE ImageReferences(_, _)
ImageReferences(df, refs) ==
    IF df = <<>> THEN refs
    ELSE ImageReferences(
           Tail(df),
           DictPut(refs, <<Head(df).date, Head(df).sensor>>,
                   [image_id |-> Head(df).id, image_date |-> Head(df).date,
                    image_sensor |-> Head(df).sensor,
                    season_field_id |-> Head(df).seasonField]))

\* one attempt of the method body up to the coverage query; a ValueError is
\* retried until stop_max_attempt_number attempts were made
references_attempt ==
    /\ pc = "references"
    /\ attempt_number' = attempt_number + 1
    /\ IF RegionMissing(season_field_id, polygon)
       THEN IF attempt_number + 1 >= stop_max_attempt_number
            THEN Raise("ValueError")
            ELSE Goto("references")
       ELSE Goto("coverage")
    /\ UNCHANGED <<op, polygon, season_field_id, collections, indicator,
                   requests, responses, catalog, df_coverage, df_none, k,
                   dict_archives, first_img_id, list_xarr, list_crs, dataset,
                   images_references, task_status, access_token, session_token, attempts,
                   args, result, fields>>

-----------------------------------------------------------------------------
(* MapProductService.get_satellite_coverage and what its caller does next *)

\* an empty dataframe, not None, for a response that is not 200
CoverageResult_EmptyOnError(status, body) == [none |-> FALSE, rows |-> body]

\* the value get_satellite_coverage returns for a response:
\* the dataframe on 200, None otherwise
CoverageResult(status, body) ==
    IF status = 200 THEN [none |-> FALSE, rows |-> body]
                    ELSE [none |-> TRUE, rows |-> <<>>]

\* without the early return on an empty dataframe, df_coverage.iloc[0] raises
DatasetAfterCoverage_NoEmptyReturn(df) ==
    IF df.none
    THEN /\ Raise("AttributeError")
         /\ UNCHANGED <<df_coverage, k, dataset>>
    ELSE IF df.rows = <<>>
    THEN /\ Raise("IndexError")
         /\ UNCHANGED <<df_coverage, k, dataset>>
    ELSE /\ Goto("download")
         /\ df_coverage' = SelectCoverage(df.rows)
         /\ k' = 1
         /\ UNCHANGED dataset

\* __get_images_as_dataset, from the coverage query to the first download
DatasetAfterCoverage(df) ==
    IF df.none
    THEN /\ Raise("AttributeError")
         /\ UNCHANGED <<df_coverage, k, dataset>>
    ELSE IF df.rows = <<>>
    THEN /\ Return("Dataset")
         /\ dataset' = EmptyDataset
         /\ UNCHANGED <<df_coverage, k>>
    ELSE /\ Goto("download")
         /\ df_coverage' = SelectCoverage(df.rows)
         /\ k' = 1
         /\ UNCHANGED dataset

\* get_satellite_coverage_image_references, after the coverage query
ReferencesAfterCoverage(df) ==
    /\ Return("Tuple")
    /\ df_coverage' = df.rows
    /\ images_references' =
         IF df.none THEN <<>> ELSE ImageReferences(df.rows, <<>>)

get_satellite_coverage ==
    /\ pc = "coverage"
    /\ requests' = Append(requests, CatalogRequest)
    /\ \/ \E status \in StatusCodes,
             body \in IF op = "get_satellite_image_time_series"
                      THEN CatalogBodies ELSE ReferencesBodies :
            /\ status # 200 => body = <<>>
            /\ responses' = Append(responses, status)
            /\ catalog' = body
            /\ LET df == CoverageResult(status, body)
               IN  /\ df_none' = df.none
                   /\ IF op = "get_satellite_image_time_series"
                      THEN /\ DatasetAfterCoverage(df)
                           /\ UNCHANGED images_references
                      ELSE /\ ReferencesAfterCoverage(df)
                           /\ UNCHANGED <<k, dataset>>
       \* http_client.get raised: nothing catches the exception, and
       \* retry_on_exception does not retry it
       \/ /\ responses' = Append(responses, NoResponse)
          /\ Raise("ConnectionError")
          /\ UNCHANGED <<catalog, df_none, df_coverage, k, dataset,
                         images_references>>
    /\ UNCHANGED <<op, polygon, season_field_id, collections, indicator,
                   attempt_number, dict_archives, first_img_id, list_xarr,
                   list_crs, task_status, access_token, session_token, attempts,
                   args, result, fields>>


-----------------------------------------------------------------------------
(* Geosys.__get_images_as_dataset: the download loop *)

\* the indicator compared as written, without upper()
Bands_CaseSensitive(row) ==
    IF indicator # "REFLECTANCE" THEN <<indicator>>
    ELSE row.availableBands

\* bands of a row: the indicator alone unless reflectance is asked
Bands(row) ==
    IF upper(indicator) # "REFLECTANCE" THEN <<indicator>>
    ELSE row.availableBands

\* the download loop ends one row early
MoreRows_StopEarly(i, df) == i < Len(df) - 1

\* `for i, row in df_coverage.iterrows()`: rows remain after row i
MoreRows(i, df) == i < Len(df)

\* no check of the status: the body is taken whatever the status
TiffOk_Unchecked(status) == TRUE

\* get_zipped_tiff: `if response_zipped_tiff.status_code != 200: raise`
TiffOk(status) == status = 200

\* one iteration of `for i, row in df_coverage.iterrows()`:
\* get_zipped_tiff and the entry of dict_archives
get_zipped_tiff ==
    /\ pc = "download"
    /\ LET row == df_coverage[k]
       IN  /\ requests' = Append(requests, TiffRequest(row))
           /\ \E status \in StatusCodes, archive \in Archives :
                /\ status # 200 => archive = <<>>
                /\ responses' = Append(responses, status)
                /\ IF ~TiffOk(status)
                   THEN /\ Raise("HTTPError")
                        /\ UNCHANGED <<dict_archives, k, first_img_id>>
                   ELSE /\ dict_archives' =
                             DictPut(dict_archives, row.id,
                                     [byte_archive |-> archive,
                                      bands |-> Bands(row),
                                      date |-> row.date,
                                      sensor |-> row.sensor])
                        /\ IF MoreRows(k, df_coverage)
                           THEN /\ Goto("download")
                                /\ k' = k + 1
                                /\ UNCHANGED first_img_id
                           ELSE /\ Goto("decode")
                                /\ k' = 1
                                /\ first_img_id' = df_coverage[1].id
    /\ UNCHANGED <<op, polygon, season_field_id, collections, indicator,
                   attempt_number, catalog, df_coverage, df_none, list_xarr,
                   list_crs, dataset, images_references, task_status, access_token, session_token, attempts,
                   args, result, fields>>

-----------------------------------------------------------------------------
(* Geosys.__get_images_as_dataset: the decoding loop *)

\* one iteration of `for img_id, dict_data in dict_archives.items()`
decode_archive ==
    /\ pc = "decode"
    /\ LET img_id    == dict_archives[k].key
           dict_data == dict_archives[k].val
           done      == DecodeImages(images_in_bytes(dict_data.byte_archive),
                                     img_id, dict_data, first_img_id,
                                     list_xarr, list_crs)
       IN  /\ list_xarr' = done.xarr
           /\ list_crs' = done.crs
           /\ IF done.error # ""
              THEN Raise(done.error) /\ UNCHANGED k
              ELSE IF k < Len(dict_archives)
              THEN Goto("decode") /\ k' = k + 1
              ELSE Goto("assemble") /\ UNCHANGED k
    /\ UNCHANGED <<op, polygon, season_field_id, collections, indicator,
                   attempt_number, requests, responses, catalog, df_coverage,
                   df_none, dict_archives, first_img_id, dataset,
                   images_references, task_status, access_token, session_token, attempts,
                   args, result, fields>>

\* df_coverage["crs"] = list_crs fits only a list as long as the dataframe
CrsFits(df, lc) == Len(lc) = Len(df)

\* df_coverage["crs"] = list_crs, xr.concat, xr.Dataset, assign_coords, return
assemble ==
    /\ pc = "assemble"
    /\ IF ~CrsFits(df_coverage, list_crs)
       THEN Raise("ValueError") /\ UNCHANGED dataset
       ELSE /\ Return("Dataset")
            /\ dataset' = BuildDataset(indicator, list_xarr, df_coverage,
                                       list_crs)
    /\ UNCHANGED <<op, polygon, season_field_id, collections, indicator,
                   attempt_number, requests, responses, catalog, df_coverage,
                   df_none, k, dict_archives, first_img_id, list_xarr,
                   list_crs, images_references, task_status, access_token, session_token, attempts,
                   args, result, fields>>

-----------------------------------------------------------------------------
(* AnalyticsProcessorService.wait_and_check_task_status, under retrying.retry *)

\* the task statuses the events endpoint reports
TaskStatuses == {"Ended", "Running", "Cancelled"}

EventsRequest ==
    [kind |-> "events", map_type |-> "", sensors |-> NoneList,
     payload |-> "task_id", image |-> ""]

\* requests.Response.ok
ok(status) == status < 400

\* every exception is retried
RetryOn_Any(exc) == TRUE

\* retry_on_exception=lambda exc: isinstance(exc, KeyError)
RetryOn(exc) == exc = "KeyError"

\* an attempt that raised exc is followed by another one
Retried(exc, attempts_made) ==
    RetryOn(exc) /\ attempts_made < stop_max_attempt_number

\* the methods of Geosys that wait for a task and then ask for its outcome
AnalyticsCalls ==
    {"check_status_and_metrics", "get_mr_time_series",
     "get_harvest_analytics", "get_emergence_analytics"}

\* wait_and_check_task_status returns value: to the caller of the service,
\* or into a method of Geosys, which drops the value and goes on
PollReturn(value) ==
    IF op \in AnalyticsCalls THEN Goto("followup") ELSE Return(value)

\* the call: the decorator starts the first attempt
wait_and_check_task_status ==
    /\ pc = "idle"
    /\ op' = "wait_and_check_task_status"
    /\ NoLocals
    /\ Goto("poll")
    /\ args' = NoArgs
    /\ fields' = <<>>
    /\ UNCHANGED <<polygon, season_field_id, collections, indicator,
                   access_token, session_token>>

\* one attempt of the method body: one pass of `while True`, which ends with
\* a return, a break or a raise; a KeyError is retried until
\* stop_max_attempt_number attempts were made
poll_attempt ==
    /\ pc = "poll"
    /\ attempt_number' = attempt_number + 1
    /\ requests' = Append(requests, EventsRequest)
    /\ \E status \in StatusCodes, body \in TaskStatuses :
         /\ responses' = Append(responses, status)
         /\ IF ok(status)
            THEN /\ task_status' = body
                 /\ LET exc == IF body = "Running" THEN "KeyError"
                                                    ELSE "Exception"
                    IN  IF body = "Ended"
                        THEN PollReturn("Ended")
                        ELSE IF Retried(exc, attempt_number + 1)
                        THEN Goto("poll")
                        ELSE Raise(exc)
            ELSE /\ PollReturn("Failed")
                 /\ UNCHANGED task_status
    /\ UNCHANGED <<op, polygon, season_field_id, collections, indicator,
                   catalog, df_coverage, df_none, k, dict_archives,
                   first_img_id, list_xarr, list_crs, dataset,
                   images_references, access_token, session_token, attempts,
                   args, result, fields>>

-----------------------------------------------------------------------------
(* Geosys.check_status_and_metrics, get_mr_time_series,                     *)
(* get_harvest_analytics, get_emergence_analytics: from the launch of the  *)
(* processor on                                                            *)

LaunchRequest ==
    [kind |-> "launch", map_type |-> "", sensors |-> NoneList,
     payload |-> "parameters", image |-> ""]

\* get_s3_path_from_task_and_processor / get_lastest_metrics
FollowUpRequest ==
    [kind |-> IF op = "get_mr_time_series" THEN "s3_path"
                                            ELSE "latest_metrics",
     map_type |-> "", sensors |-> NoneList, payload |-> "task_id",
     image |-> ""]

\* the call; check_status_and_metrics is given the task id
analytics_call(method) ==
    /\ pc = "idle"
    /\ op' = method
    /\ NoLocals
    /\ args' = NoArgs
    /\ fields' = <<>>
    /\ IF method = "check_status_and_metrics"
       THEN Goto("poll") ELSE Goto("launch")
    /\ UNCHANGED <<polygon, season_field_id, collections, indicator,
                   access_token, session_token>>

\* launch_*_processor: the task id when the response is ok, else ValueError
launch_processor ==
    /\ pc = "launch"
    /\ requests' = Append(requests, LaunchRequest)
    /\ \E status \in StatusCodes :
         /\ responses' = Append(responses, status)
         /\ IF ok(status) THEN Goto("poll") ELSE Raise("ValueError")
    /\ UNCHANGED <<op, polygon, season_field_id, collections, indicator,
                   attempt_number, catalog, df_coverage, df_none, k,
                   dict_archives, first_img_id, list_xarr, list_crs, dataset,
                   images_references, task_status, access_token,
                   session_token, attempts, args, result, fields>>

\* the request made after wait_and_check_task_status has returned
follow_up ==
    /\ pc = "followup"
    /\ requests' = Append(requests, FollowUpRequest)
    /\ \E status \in StatusCodes :
         /\ responses' = Append(responses, status)
         /\ IF op = "get_mr_time_series"
            THEN IF ok(status) THEN Return("S3Path") ELSE Raise("ValueError")
            ELSE IF status = 200 THEN Return("DataFrame") ELSE Return("None")
    /\ UNCHANGED <<op, polygon, season_field_id, collections, indicator,
                   attempt_number, catalog, df_coverage, df_none, k,
                   dict_archives, first_img_id, list_xarr, list_crs, dataset,
                   images_references, task_status, access_token,
                   session_token, attempts, args, result, fields>>

-----------------------------------------------------------------------------
(* Calls of the services: the call stores its arguments, the body runs next *)

ServiceCall(name, a, label) ==
    /\ pc = "idle"
    /\ op' = name
    /\ args' = a
    /\ NoLocals
    /\ fields' = <<>>
    /\ Goto(label)
    /\ UNCHANGED <<polygon, season_field_id, collections, indicator,
                   access_token, session_token>>

\* what a service body leaves alone besides pc, ret, error and result
ServiceFrame ==
    UNCHANGED <<op, polygon, season_field_id, collections, indicator,
                attempt_number, catalog, df_coverage, df_none, k,
                dict_archives, first_img_id, list_xarr, list_crs, dataset,
                images_references, task_status, access_token, session_token,
                attempts, args>>

-----------------------------------------------------------------------------
(* Geosys.get_time_series and WeatherService.get_weather *)

\* the collections get_time_series is called with: a weather collection,
\* the low resolution collection and a medium resolution collection
TimeSeriesCollection == {"WEATHER_HISTORICAL_DAILY", "MODIS", "SENTINEL_2"}

\* the indicators lists get_time_series is called with
IndicatorsLists == { <<"Precipitation">>, <<"Date", "Temperature">> }

\* 'Date' is appended whether present or not
WithDate_Always(f) == Append(f, "Date")

\* `if "Date" not in fields: fields.append("Date")`
WithDate(f) == IF "Date" \notin Range(f) THEN Append(f, "Date") ELSE f

WeatherRequest(f) ==
    [kind |-> "weather", map_type |-> args.collection, sensors |-> NoneList,
     payload |-> f, image |-> ""]

\* validation and dispatch of get_time_series
get_time_series(collection, p, sf, indicators) ==
    /\ pc = "idle"
    /\ op' = "get_time_series"
    /\ polygon' = p
    /\ season_field_id' = sf
    /\ args' = [collection |-> collection]
    /\ indicator' = indicators[1]
    /\ NoLocals
    /\ IF collection \in WeatherTypeCollection
       THEN IF Not(p)
            THEN Raise("ValueError") /\ fields' = <<>>
            ELSE Goto("weather") /\ fields' = indicators
       ELSE /\ fields' = <<>>
            /\ IF collection \in LR_SATELLITE_COLLECTION
               THEN IF RegionMissing(sf, p)
                    THEN Raise("ValueError")
                    ELSE IF Not(sf) THEN Goto("mdm_create")
                                    ELSE Goto("mdm_check")
               ELSE Raise("ValueError")
    /\ UNCHANGED <<collections, access_token, session_token>>

\* WeatherService.get_weather: the weather type check, the 'Date' field,
\* the request and its answer
get_weather ==
    /\ pc = "weather"
    /\ IF args.collection \notin WeatherTypeCollection
       THEN /\ Raise("ValueError")
            /\ UNCHANGED <<fields, requests, responses>>
       ELSE /\ fields' = WithDate(fields)
            /\ requests' = Append(requests, WeatherRequest(fields'))
            /\ \E status \in StatusCodes :
                 /\ responses' = Append(responses, status)
                 /\ IF status = 200 THEN Return("DataFrame")
                                    ELSE Raise("ValueError")
    /\ ServiceFrame
    /\ UNCHANGED result

-----------------------------------------------------------------------------
(* AgriquestService.weather_indicators_builder *)

Days == 0..MaxDay

\* `>=` in place of `>` for the forecast indicators
weather_indicators_builder_Inclusive(start_date, end_date, isFrance, today) ==
    (IF end_date >= today THEN <<4, 5>> ELSE <<>>)
    \o (IF start_date < today
        THEN IF ~isFrance THEN <<2>> ELSE <<3>>
        ELSE <<>>)

\* result = []; extend([4, 5]) if end_date > today; append(2) or append(3)
\* if start_date < today; today is datetime.now().date()
weather_indicators_builder(start_date, end_date, isFrance, today) ==
    (IF end_date > today THEN <<4, 5>> ELSE <<>>)
    \o (IF start_date < today
        THEN IF ~isFrance THEN <<2>> ELSE <<3>>
        ELSE <<>>)

call_weather_indicators_builder(start_date, end_date, isFrance, today) ==
    ServiceCall("weather_indicators_builder",
                [start_date |-> start_date, end_date |-> end_date,
                 isFrance |-> isFrance, today |-> today],
                "builder")

weather_indicators_builder_body ==
    /\ pc = "builder"
    /\ result' = weather_indicators_builder(args.start_date, args.end_date,
                                            args.isFrance, args.today)
    /\ Return("List")
    /\ ServiceFrame
    /\ UNCHANGED <<requests, responses, fields>>

-----------------------------------------------------------------------------
(* HttpClient.get / post / patch under the renew_access_token decorator *)

HttpMethods == {"HttpClient.get", "HttpClient.post", "HttpClient.patch"}

\* what the OAuth2Session does with a request: it answers, refuses to send
\* with an expired token, or fails otherwise
SessionOutcomes == {"Response", "TokenExpiredError", "ConnectionError"}

\* identifiers with two leading underscores
PrivateNames == {"__client_oauth", "__client"}

\* Python's private name mangling: an identifier __x that occurs textually
\* in the body of class C names the attribute _C__x; elsewhere it names __x.
\* An attribute name is the pair of the class prefix and the identifier.
Mangle(class, name) ==
    IF class # "" /\ name \in PrivateNames THEN <<class, name>>
    ELSE <<"", name>>

\* the attributes HttpClient.__init__ sets on the instance
HttpClientAttributes ==
    { Mangle("HttpClient", "__client_oauth"),
      Mangle("HttpClient", "access_token"),
      Mangle("HttpClient", "__client") }

\* `self.__client_oauth` as written in wrapper, a function of the module
\* and of no class
WrapperClientOauth == Mangle("", "__client_oauth")

\* Oauth2Api.get_refresh_token: the token the identity server issues next
get_refresh_token == "token_2"

\* every exception of func is taken for an expired token
Renewable_Any(outcome) == outcome # "Response"

\* `except TokenExpiredError`: the only exception the wrapper handles
Renewable(outcome) == outcome = "TokenExpiredError"

\* the call of a wrapped method
http_call(method) ==
    /\ pc = "idle"
    /\ op' = method
    /\ NoLocals
    /\ Goto("http")
    /\ args' = NoArgs
    /\ fields' = <<>>
    /\ UNCHANGED <<polygon, season_field_id, collections, indicator,
                   access_token, session_token>>

\* wrapper: func in the try block; on TokenExpiredError the except block
\* evaluates self.__client_oauth.get_refresh_token() and calls func again
renew_access_token ==
    /\ pc = "http"
    /\ \E first \in SessionOutcomes, second \in SessionOutcomes :
         LET sent == [token |-> session_token, outcome |-> first]
         IN  IF first = "Response"
             THEN /\ attempts' = <<sent>>
                  /\ Return("Response")
                  /\ UNCHANGED access_token
             ELSE IF ~Renewable(first)
             THEN /\ attempts' = <<sent>>
                  /\ Raise(first)
                  /\ UNCHANGED access_token
             ELSE IF WrapperClientOauth \notin HttpClientAttributes
             THEN /\ attempts' = <<sent>>
                  /\ Raise("AttributeError")
                  /\ UNCHANGED access_token
             ELSE /\ access_token' = get_refresh_token
                  /\ attempts' = <<sent, [token |-> session_token,
                                          outcome |-> second]>>
                  /\ IF second = "Response"
                     THEN Return("Response") ELSE Raise(second)
    /\ UNCHANGED <<op, polygon, season_field_id, collections, indicator,
                   attempt_number, requests, responses, catalog, df_coverage,
                   df_none, k, dict_archives, first_img_id, list_xarr,
                   list_crs, dataset, images_references, task_status,
                   session_token,
                   args, result, fields>>

-----------------------------------------------------------------------------
(* Oauth2Api.__init__ and Oauth2Api.__authenticate *)

\* the bearer_token argument: absent, empty, or a token
BearerTokens == {None, "", "bearer_1"}

\* what the token request can end in: a token with the refresh_token cookie,
\* a token without the cookie, an exception of fetch_token
FetchOutcomes == {"token", "token_without_cookie", "error"}

\* the token fetch_token answers with, before the refresh_token is added
FetchedToken == <<"access_token", "token_1">>

TokenRequest ==
    [kind |-> "token", map_type |-> "", sensors |-> NoneList,
     payload |-> "password", image |-> ""]

\* __authenticate without its try / except
authenticate_Uncaught(outcome) ==
    CASE outcome = "token" ->
           [raises |-> "", token |-> FetchedToken
                                       \o <<"refresh_token", "token_2">>]
      [] outcome = "token_without_cookie" ->
           [raises |-> "KeyError", token |-> FetchedToken]
      [] OTHER -> [raises |-> "Exception", token |-> <<>>]

\* __authenticate: self.token is assigned when fetch_token returns, the
\* refresh_token is added when the cookie is there, and every exception is
\* logged, not raised
authenticate(outcome) ==
    CASE outcome = "token" ->
           [raises |-> "", token |-> FetchedToken
                                       \o <<"refresh_token", "token_2">>]
      [] outcome = "token_without_cookie" ->
           [raises |-> "", token |-> FetchedToken]
      [] OTHER -> [raises |-> "", token |-> <<>>]

\* Oauth2Api(..., bearer_token): self.token = None, then the bearer token
\* is wrapped or __authenticate runs
Oauth2Api(bearer_token) ==
    /\ pc = "idle"
    /\ op' = "Oauth2Api"
    /\ args' = [bearer_token |-> bearer_token]
    /\ NoLocals
    /\ fields' = <<>>
    /\ IF ~Not(bearer_token) THEN Goto("bearer") ELSE Goto("authenticate")
    /\ UNCHANGED <<polygon, season_field_id, collections, indicator,
                   access_token, session_token>>

\* self.token = {"access_token": bearer_token}
Oauth2Api_bearer ==
    /\ pc = "bearer"
    /\ result' = <<"access_token", args.bearer_token>>
    /\ Return("Oauth2Api")
    /\ ServiceFrame
    /\ UNCHANGED <<requests, responses, fields>>

\* self.__authenticate()
Oauth2Api_authenticate ==
    /\ pc = "authenticate"
    /\ requests' = Append(requests, TokenRequest)
    /\ \E outcome \in FetchOutcomes :
         LET done == authenticate(outcome) IN
         /\ responses' = Append(responses,
                                IF outcome = "error" THEN 500 ELSE 200)
         /\ result' = done.token
         /\ IF done.raises = "" THEN Return("Oauth2Api")
                                ELSE Raise(done.raises)
    /\ ServiceFrame
    /\ UNCHANGED fields

-----------------------------------------------------------------------------
(* AnalyticsFabricService.get_metrics *)

\* the start_date and end_date arguments: None or a date
OptionalDates == {None, "2022-01-01"}

\* the metrics of a response body: none, or some
MetricsBodies == { <<>>, <<"metric_1">> }

\* a local variable read before any assignment
Unbound == "<unbound>"

\* the Timestamp query parameter
build_timestamp_query_parameters(start_date, end_date) ==
    IF start_date = None /\ end_date = None THEN ""
    ELSE IF start_date # None /\ end_date = None THEN "&Timestamp=$gte:"
    ELSE IF start_date = None /\ end_date # None THEN "&Timestamp:$lte:"
    ELSE "&Timestamp=$between:"

\* the local date_msg of get_metrics after the if / elif / elif on an empty
\* dataframe: no branch assigns it when both dates are None
date_msg(start_date, end_date) ==
    IF start_date # None /\ end_date # None THEN "between:"
    ELSE IF start_date = None /\ end_date # None THEN "<= "
    ELSE IF start_date # None /\ end_date = None THEN ">= "
    ELSE Unbound

MetricsRequest ==
    [kind |-> "metrics", map_type |-> "", sensors |-> NoneList,
     payload |-> build_timestamp_query_parameters(args.start_date,
                                                  args.end_date),
     image |-> ""]

call_get_metrics(start_date, end_date) ==
    ServiceCall("get_metrics",
                [start_date |-> start_date, end_date |-> end_date],
                "metrics")

\* the request and what get_metrics makes of the response
get_metrics ==
    /\ pc = "metrics"
    /\ requests' = Append(requests, MetricsRequest)
    /\ \E status \in StatusCodes, body \in MetricsBodies :
         /\ status # 200 => body = <<>>
         /\ responses' = Append(responses, status)
         /\ IF status = 200
            THEN /\ result' = body
                 /\ IF body = <<>>
                       /\ date_msg(args.start_date, args.end_date) = Unbound
                    THEN Raise("UnboundLocalError")
                    ELSE Return("DataFrame")
            ELSE /\ result' = <<>>
                 /\ Return("None")
    /\ ServiceFrame
    /\ UNCHANGED fields

-----------------------------------------------------------------------------
(* The caller takes the result or the exception; the client is idle again *)

finish ==
    /\ pc \in {"returned", "raised"}
    /\ pc' = "idle"
    /\ op' = ""
    /\ polygon' = None
    /\ season_field_id' = None
    /\ collections' = NoneList
    /\ indicator' = ""
    /\ ret' = ""
    /\ error' = ""
    /\ NoLocals
    /\ args' = NoArgs
    /\ fields' = <<>>
    /\ UNCHANGED <<access_token, session_token>>

-----------------------------------------------------------------------------

Next ==
    \/ \E call \in TimeSeriesCalls :
         get_satellite_image_time_series(call.polygon, call.season_field_id,
                                         call.collections, call.indicator)
    \/ extract_season_field_id
    \/ check_season_field_exists
    \/ get_time_series_by_pixel
    \/ \E p \in Polygons, sf \in SeasonFieldIds,
          coll \in ReferencesCollections :
         get_satellite_coverage_image_references(p, sf, coll)
    \/ references_attempt
    \/ get_satellite_coverage
    \/ get_zipped_tiff
    \/ decode_archive
    \/ assemble
    \/ wait_and_check_task_status
    \/ poll_attempt
    \/ \E method \in AnalyticsCalls : analytics_call(method)
    \/ launch_processor
    \/ follow_up
    \/ \E start_date \in Days, end_date \in Days, isFrance \in BOOLEAN,
          today \in Days :
         call_weather_indicators_builder(start_date, end_date, isFrance, today)
    \/ weather_indicators_builder_body
    \/ \E collection \in TimeSeriesCollection, p \in Polygons,
          sf \in SeasonFieldIds, indicators \in IndicatorsLists :
         get_time_series(collection, p, sf, indicators)
    \/ get_weather
    \/ \E method \in HttpMethods : http_call(method)
    \/ renew_access_token
    \/ \E bearer_token \in BearerTokens : Oauth2Api(bearer_token)
    \/ Oauth2Api_bearer
    \/ Oauth2Api_authenticate
    \/ \E start_date \in OptionalDates, end_date \in OptionalDates :
         call_get_metrics(start_date, end_date)
    \/ get_metrics
    \/ finish

Spec == Init /\ [][Next]_vars

-----------------------------------------------------------------------------
(* A caller that keeps one fields list and passes it to every get_weather  *)
(* call it makes                                                            *)

\* the names of weather fields
FieldNames == {"Date", "Precipitation", "Temperature"}

\* the lists a caller starts with: no name twice, MaxFields names at most
CallerFields ==
    { f \in UNION { [1..n -> FieldNames] : n \in 0..MaxFields } :
        \A i, j \in DOMAIN f : i # j => f[i] # f[j] }

\* the weather_type arguments: the members of WeatherTypeCollection and a
\* member of another enumeration
WeatherTypes == WeatherTypeCollection \cup {"SENTINEL_2"}

WeatherInit ==
    /\ pc = "idle"
    /\ op = ""
    /\ polygon = None
    /\ season_field_id = None
    /\ collections = NoneList
    /\ indicator = ""
    /\ attempt_number = 0
    /\ requests = <<>>
    /\ responses = <<>>
    /\ catalog = <<>>
    /\ df_coverage = <<>>
    /\ df_none = FALSE
    /\ k = 0
    /\ dict_archives = <<>>
    /\ first_img_id = ""
    /\ list_xarr = <<>>
    /\ list_crs = <<>>
    /\ ret = ""
    /\ dataset = EmptyDataset
    /\ images_references = <<>>
    /\ task_status = ""
    /\ access_token = "token_1"
    /\ session_token = "token_1"
    /\ attempts = <<>>
    /\ args = NoArgs
    /\ result = <<>>
    /\ fields \in CallerFields
    /\ error = ""

\* get_weather(polygon, start_date, end_date, weather_type, fields) with the
\* caller's list, which is passed by reference
call_get_weather(weather_type) ==
    /\ pc = "idle"
    /\ op' = "get_weather"
    /\ args' = [collection |-> weather_type]
    /\ NoLocals
    /\ Goto("weather")
    /\ UNCHANGED <<polygon, season_field_id, collections, indicator,
                   access_token, session_token, fields>>

\* the caller takes the result or the exception and keeps its list
weather_finish ==
    /\ pc \in {"returned", "raised"}
    /\ pc' = "idle"
    /\ op' = ""
    /\ ret' = ""
    /\ error' = ""
    /\ NoLocals
    /\ args' = NoArgs
    /\ UNCHANGED <<polygon, season_field_id, collections, indicator,
                   access_token, session_token, fields>>

WeatherNext ==
    \/ \E weather_type \in WeatherTypes : call_get_weather(weather_type)
    \/ get_weather
    \/ weather_finish

WeatherSpec == WeatherInit /\ [][WeatherNext]_vars


-----------------------------------------------------------------------------
(* Properties *)

TimeSeries == op = "get_satellite_image_time_series"
References == op = "get_satellite_coverage_image_references"

\* the catalog was queried
CatalogQueried == \E i \in DOMAIN requests : requests[i].kind = "catalog"

\* the catalog was queried and answered
CatalogAnswered ==
    \E i \in DOMAIN requests :
      requests[i].kind = "catalog" /\ responses[i] # NoResponse

\* the coverage was sorted and deduplicated
Selected == TimeSeries /\ CatalogAnswered /\ ~df_none /\ catalog # <<>>

\* a dataset with time entries was returned
DatasetReturned ==
    TimeSeries /\ pc = "returned" /\ ret = "Dataset" /\ dataset.slots # <<>>

TiffRequests == {i \in DOMAIN requests : requests[i].kind = "tiff"}

MinResolution(d) ==
    LET rs == {catalog[m].spatialResolution :
                 m \in {n \in DOMAIN catalog : catalog[n].date = d}}
    IN  CHOOSE r \in rs : \A q \in rs : r <= q

Survivors(d) ==
    {j \in DOMAIN df_coverage : df_coverage[j].date = to_datetime(d)}

\* C1: after the coverage is sorted and deduplicated, every date of the
\* catalog response has exactly one surviving record, a record of the
\* response, and its spatial resolution is the minimum over the response's
\* records of that date; no other record survives.
C1_DedupKeepsFinest ==
    Selected =>
      /\ \A i \in DOMAIN catalog :
           /\ Cardinality(Survivors(catalog[i].date)) = 1
           /\ \A j \in Survivors(catalog[i].date) :
                /\ df_coverage[j].spatialResolution =
                     MinResolution(catalog[i].date)
                /\ \E m \in DOMAIN catalog :
                     /\ catalog[m].date = catalog[i].date
                     /\ catalog[m].id = df_coverage[j].id
      /\ \A j \in DOMAIN df_coverage :
           \E i \in DOMAIN catalog : j \in Survivors(catalog[i].date)

\* C1 witness: a response of three records, two of one date with the coarser
\* one first, has been reduced to two records.
C1_Witness ==
    /\ Selected
    /\ Len(catalog) = 3
    /\ catalog[1].id = "IMG_B"
    /\ Len(df_coverage) = 2

\* C2: the selected records, and the time coordinate of every non-empty
\* dataset, are in strictly increasing date order.
C2_DateOrder ==
    /\ Selected =>
         \A i, j \in DOMAIN df_coverage :
           i < j => df_coverage[i].date < df_coverage[j].date
    /\ DatasetReturned =>
         \A i, j \in DOMAIN dataset.time :
           i < j => dataset.time[i] < dataset.time[j]

\* C3: in every returned dataset every time slot has the x and y coordinates
\* of the first slot's raster, and so has the dataset.
C3_GridAligned ==
    DatasetReturned =>
      /\ \A i \in DOMAIN dataset.slots :
           /\ dataset.slots[i].x = dataset.slots[1].data.native_x
           /\ dataset.slots[i].y = dataset.slots[1].data.native_y
      /\ dataset.x = dataset.slots[1].data.native_x
      /\ dataset.y = dataset.slots[1].data.native_y

\* C4: in every returned dataset the first raster, a raster of the first
\* record in (resolution, date) order, is adopted verbatim and every other
\* raster was resampled onto its grid.
C4_OneReference ==
    DatasetReturned =>
      /\ dataset.slots[1].data.img = df_coverage[1].id
      /\ ~dataset.slots[1].interp
      /\ dataset.slots[1].x = dataset.slots[1].data.native_x
      /\ dataset.slots[1].y = dataset.slots[1].data.native_y
      /\ \A i \in DOMAIN dataset.slots :
           i > 1 => /\ dataset.slots[i].interp
                    /\ dataset.slots[i].x = dataset.slots[1].x
                    /\ dataset.slots[i].y = dataset.slots[1].y

\* C5: when the catalog answers 200 with zero records, the coverage query
\* returns an empty result, the assembler returns an empty dataset with no
\* time entries, no exception is raised and no raster is downloaded.
C5_EmptyCoverage ==
    (CatalogAnswered /\ ~df_none /\ catalog = <<>>) =>
      /\ pc = "returned"
      /\ error = ""
      /\ TiffRequests = {}
      /\ df_coverage = <<>>
      /\ TimeSeries => ret = "Dataset" /\ dataset.time = <<>>
                         /\ dataset = EmptyDataset
      /\ References => ret = "Tuple" /\ images_references = <<>>

\* C5 witness: the assembly has returned after an empty catalog answer.
C5_Witness ==
    /\ TimeSeries
    /\ CatalogAnswered /\ ~df_none /\ catalog = <<>>
    /\ pc = "returned"


\* the slots of the returned dataset that hold data of the image img_id
SlotsOf(img_id) ==
    {j \in DOMAIN dataset.slots : dataset.slots[j].data.img = img_id}

\* C6: every returned dataset has exactly one time entry per surviving
\* record: as many entries as records, and for each record exactly one slot
\* holding that record's data at that record's date.
C6_OneEntryPerRecord ==
    DatasetReturned =>
      /\ Len(dataset.time) = Len(df_coverage)
      /\ \A i \in DOMAIN df_coverage :
           /\ Cardinality(SlotsOf(df_coverage[i].id)) = 1
           /\ \A j \in SlotsOf(df_coverage[i].id) :
                dataset.time[j] = df_coverage[i].date

\* C7: in every returned dataset the image id, sensor, spatial resolution and
\* CRS at position i are those of the record and raster whose data slot i
\* holds.
C7_AuxAligned ==
    DatasetReturned =>
      \A i \in DOMAIN dataset.slots :
        /\ dataset.image_id[i] = dataset.slots[i].data.img
        /\ dataset.crs[i] = dataset.slots[i].data.crs
        /\ \E r \in DOMAIN df_coverage :
             /\ df_coverage[r].id = dataset.slots[i].data.img
             /\ dataset.sensor[i] = df_coverage[r].sensor
             /\ dataset.spatialResolution[i] = df_coverage[r].spatialResolution

\* C8: whenever the catalog endpoint answers with a non-success status, the
\* call ends with an error for its caller and returns no value, in the
\* coverage references call and in the time-series assembly alike.
C8_CatalogErrorSurfaces ==
    (CatalogAnswered /\ df_none) => (pc = "raised" /\ error # "" /\ ret = "")

NeitherSupplied == Not(polygon) /\ Not(season_field_id)

\* both arguments were supplied by the caller (the season field id was not
\* derived from the polygon)
BothSupplied ==
    /\ ~Not(polygon) /\ ~Not(season_field_id)
    /\ \A i \in DOMAIN requests : requests[i].kind # "mdm_create"

\* the call was refused before any request was sent
Rejected ==
    /\ requests = <<>>
    /\ ret = ""
    /\ pc \in {"raised", "references"}
    /\ pc = "raised" => error = "ValueError"
    /\ pc = "references" => attempt_number < stop_max_attempt_number

\* C9 as stated: a call proceeds only when exactly one of polygon and
\* season_field_id is supplied; with neither or with both it fails with an
\* invalid-argument error and sends no request.
C9_RegionExactlyOne ==
    ((TimeSeries \/ References) /\ (NeitherSupplied \/ BothSupplied)) => Rejected

\* C9 amended: a call is refused for its region exactly when neither polygon
\* nor season_field_id is supplied, and then it fails with ValueError and
\* sends no request; with at least one supplied, both included, no ValueError
\* is raised before a request is sent, and the coverage query names the
\* season field by its id whenever an id is supplied.
C9_RegionAtLeastOne ==
    /\ ((TimeSeries \/ References) /\ NeitherSupplied) => Rejected
    /\ ((TimeSeries \/ References) /\ ~NeitherSupplied) =>
         ~(pc = "raised" /\ error = "ValueError" /\ requests = <<>>)
    /\ \A i \in DOMAIN requests :
         requests[i].kind = "catalog" =>
           (requests[i].payload = "id" <=> ~Not(season_field_id))

\* C9 witness: a coverage references call given both a polygon and a season
\* field id went through and got the catalog's answer.
C9_Witness ==
    /\ References
    /\ BothSupplied
    /\ pc = "returned"
    /\ CatalogAnswered
    /\ catalog # <<>>

\* collections that are empty/None or hold an identifier outside the sensor
\* set of the request (all low resolution, or all medium resolution)
InvalidCollections(coll) ==
    \/ NotList(coll)
    \/ ~ \/ Range(coll.elems) \subseteq LR_SATELLITE_COLLECTION
         \/ Range(coll.elems) \subseteq MR_SATELLITE_COLLECTION

\* C10: get_satellite_image_time_series given such collections fails with an
\* invalid-argument error, never queries the catalog and never returns.
C10_CollectionsRejected ==
    (TimeSeries /\ InvalidCollections(collections)) =>
      /\ pc = "raised"
      /\ error \in {"ValueError", "TypeError"}
      /\ ~CatalogQueried


\* C11: an invalid-argument error is not retried: the method body of
\* get_satellite_coverage_image_references is attempted once, also when
\* neither polygon nor season_field_id is supplied.
C11_NoRetry == References => attempt_number <= 1

\* the raster download requests, in the order sent
TiffLog == SelectSeq(requests, LAMBDA r : r.kind = "tiff")

\* the archives the decoding loop has finished with
ArchivesDecoded ==
    CASE pc = "download" -> 0
      [] pc = "decode" -> k - 1
      [] pc = "raised" /\ error = "HTTPError" -> 0
      [] pc = "raised" /\ error = "IndexError" -> k - 1
      [] OTHER -> Len(dict_archives)

\* C12 as stated: the download of record k+1 is requested only after record
\* k has been downloaded and decoded.
C12_OneAtATime ==
    TimeSeries => Len(TiffLog) <= ArchivesDecoded + 1

\* C12 amended: the assembly makes two passes.  The downloads are requested
\* one at a time in record order, each after the previous archive was
\* stored; decoding starts only when every record has been downloaded, and
\* takes the archives one at a time in the same order.
C12_TwoPasses ==
    TimeSeries =>
      /\ \A i \in DOMAIN TiffLog : TiffLog[i].image = df_coverage[i].id
      /\ \A i \in DOMAIN dict_archives :
           dict_archives[i].key = df_coverage[i].id
      /\ pc = "download" =>
           /\ Len(TiffLog) = k - 1
           /\ Len(dict_archives) = k - 1
           /\ list_xarr = <<>>
      /\ (pc \in {"decode", "assemble"} \/ list_xarr # <<>>) =>
           /\ Len(TiffLog) = Len(df_coverage)
           /\ Len(dict_archives) = Len(df_coverage)
      /\ pc = "decode" =>
           \A i \in DOMAIN list_xarr :
             \E j \in 1..(k - 1) : list_xarr[i].data.img = dict_archives[j].key

\* C12 witness: the second of two archives is about to be decoded, both
\* downloads done and the first archive's raster in the list.
C12_Witness ==
    /\ TimeSeries
    /\ pc = "decode"
    /\ k = 2
    /\ Len(TiffLog) = 2
    /\ list_xarr # <<>>


\* a raster download was answered with a status other than 200
DownloadRefused ==
    \E i \in DOMAIN requests :
      requests[i].kind = "tiff" /\ responses[i] # 200

\* C13: whenever a raster download answers with a status other than 200, the
\* assembly ends with that error for its caller, nothing is decoded and no
\* dataset, partial or complete, is returned.
C13_DownloadErrorAborts ==
    DownloadRefused =>
      /\ pc = "raised"
      /\ error = "HTTPError"
      /\ ret = ""
      /\ list_xarr = <<>>
      /\ dataset = EmptyDataset

\* C13 witness: the second download of an assembly was refused after the
\* first had succeeded.
C13_Witness ==
    /\ DownloadRefused
    /\ Len(TiffLog) = 2
    /\ Len(dict_archives) = 1

\* the downloads requested for the image img_id
DownloadsOf(img_id) ==
    {i \in DOMAIN TiffLog : TiffLog[i].image = img_id}

\* record i of the catalog response is not the finest of its date
Removed(i) ==
    catalog[i].spatialResolution > MinResolution(catalog[i].date)

\* the download loop ran to its end
DownloadsDone == Selected /\ pc # "download" /\ error # "HTTPError"

\* C14: in one assembly no download is requested for a record that
\* deduplication removed, at most one for a record that survived, and exactly
\* one for each survivor once the download loop has ended.
C14_OneDownloadPerSurvivor ==
    Selected =>
      /\ \A i \in DOMAIN TiffLog :
           \E j \in DOMAIN catalog : catalog[j].id = TiffLog[i].image
      /\ \A i \in DOMAIN catalog :
           /\ Removed(i) => DownloadsOf(catalog[i].id) = {}
           /\ Cardinality(DownloadsOf(catalog[i].id)) <= 1
           /\ (DownloadsDone /\ ~Removed(i)) =>
                Cardinality(DownloadsOf(catalog[i].id)) = 1

\* C14 witness: a response of three records, one of them removed, and the
\* downloads of the two survivors done.
C14_Witness ==
    /\ DownloadsDone
    /\ Len(catalog) = 3
    /\ Len(TiffLog) = 2
    /\ \E i \in DOMAIN catalog : Removed(i)

\* a downloaded archive holds no .tif entry
EmptyArchive ==
    \E i \in DOMAIN dict_archives :
      images_in_bytes(dict_archives[i].val.byte_archive) = <<>>

\* C15: when a downloaded archive of an assembly holds no .tif raster, the
\* invocation never returns a dataset.
C15_EmptyArchiveFails ==
    (TimeSeries /\ EmptyArchive) => ~(pc = "returned" /\ ret = "Dataset")

ReflectanceAsked == indicator \in {"Reflectance", "reflectance", "REFLECTANCE"}

\* the band labels the claim gives the raster of the image img_id
BandLabels(img_id) ==
    LET row == CHOOSE r \in Range(df_coverage) : r.id = img_id
    IN  IF ReflectanceAsked THEN row.availableBands ELSE <<indicator>>

\* C16: every decoded raster, and every slot of a returned dataset, is
\* labelled with exactly one band named after the indicator when the
\* indicator is not reflectance in any letter case, and with its record's
\* available-bands list when it is.
C16_BandLabels ==
    TimeSeries =>
      /\ \A i \in DOMAIN list_xarr :
           list_xarr[i].band = BandLabels(list_xarr[i].data.img)
      /\ \A i \in DOMAIN dataset.slots :
           dataset.slots[i].band = BandLabels(dataset.slots[i].data.img)
      /\ \A i \in DOMAIN dict_archives :
           dict_archives[i].val.bands = BandLabels(dict_archives[i].key)

\* C16 witness: a dataset of two slots was returned for the indicator
\* written "Reflectance".
C16_Witness ==
    /\ DatasetReturned
    /\ indicator = "Reflectance"
    /\ Len(dataset.slots) = 2

\* the decoding loop over the rows df and the archives bytes, from row i on
RECURSIVE DecodeFrom(_, _, _, _)
DecodeFrom(i, df, bytes, acc) ==
    IF i > Len(df) \/ acc.error # "" THEN acc
    ELSE DecodeFrom(
           i + 1, df, bytes,
           DecodeImages(images_in_bytes(bytes[i]), df[i].id,
                        [byte_archive |-> bytes[i],
                         bands |-> BandLabels(df[i].id),
                         date |-> df[i].date,
                         sensor |-> df[i].sensor],
                        df[1].id, acc.xarr, acc.crs))

\* the dataset as a function of the catalog response, the download
\* responses and the indicator alone
DatasetOf(body, bytes, ind) ==
    LET df  == SelectCoverage(body)
        dec == DecodeFrom(1, df, bytes,
                          [xarr |-> <<>>, crs |-> <<>>, error |-> ""])
    IN  BuildDataset(ind, dec.xarr, df, dec.crs)

\* the download responses of the running assembly, as received
DownloadResponses ==
    [i \in DOMAIN dict_archives |-> dict_archives[i].val.byte_archive]

\* C17: the returned dataset is a function of the invocation's catalog
\* response, download responses and indicator alone, and between invocations
\* nothing of an assembly is kept: two invocations given the same responses
\* return identical datasets, whatever ran before.
C17_NoStateBetweenInvocations ==
    /\ DatasetReturned =>
         dataset = DatasetOf(catalog, DownloadResponses, indicator)
    /\ pc \in {"idle", "coverage"} =>
         /\ requests = <<>> /\ responses = <<>> /\ catalog = <<>>
         /\ df_coverage = <<>> /\ ~df_none /\ dict_archives = <<>>
         /\ first_img_id = "" /\ list_xarr = <<>> /\ list_crs = <<>>
         /\ dataset = EmptyDataset
    /\ pc = "idle" => k = 0 /\ ret = "" /\ error = "" /\ op = ""

\* C17 witness: a dataset of two slots, the second resampled, was returned.
C17_Witness ==
    /\ DatasetReturned
    /\ Len(dataset.slots) = 2
    /\ Len(df_coverage) = 2
    /\ dataset.slots[2].interp

HttpCall == op \in HttpMethods /\ pc \in {"returned", "raised"}

\* C18: when the wrapped method raises TokenExpiredError, a new token is
\* fetched and the request is made a second time by a session holding the
\* new token, not the expired one.
C18_RefreshedRetry ==
    (HttpCall /\ attempts[1].outcome = "TokenExpiredError") =>
      /\ Len(attempts) = 2
      /\ access_token = get_refresh_token
      /\ attempts[2].token = get_refresh_token
      /\ attempts[2].token # attempts[1].token

\* C19: the coverage references call returns one image reference per
\* coverage row: as many entries as rows, and every row's (date, sensor)
\* pair is a key whose reference carries that row's image id.
C19_OneReferencePerRow ==
    (References /\ pc = "returned" /\ ~df_none) =>
      /\ Len(images_references) = Len(df_coverage)
      /\ \A i \in DOMAIN df_coverage :
           \E j \in DOMAIN images_references :
             /\ images_references[j].key =
                  <<df_coverage[i].date, df_coverage[i].sensor>>
             /\ images_references[j].val.image_id = df_coverage[i].id

Polling == op = "wait_and_check_task_status"

\* C20: wait_and_check_task_status returns only after a status response
\* reporting Ended was observed, and returns Ended; after any other
\* observation, a non-success HTTP response included, it does not return.
C20_ReturnsOnlyEnded ==
    (Polling /\ pc = "returned") =>
      /\ ret = "Ended"
      /\ task_status = "Ended"
      /\ ok(responses[Len(responses)])


\* the requests that ask for the outcome of a task
FollowUps ==
    {i \in DOMAIN requests : requests[i].kind \in {"s3_path", "latest_metrics"}}

\* C21: in check_status_and_metrics, get_mr_time_series,
\* get_harvest_analytics and get_emergence_analytics the follow-up request
\* (latest metrics or S3 path) is made only after a status poll observed
\* Ended.
C21_FollowUpOnlyAfterEnded ==
    FollowUps # {} => task_status = "Ended"


BuilderReturned == op = "weather_indicators_builder" /\ pc = "returned"

\* C22: weather_indicators_builder returns the forecast indicators 4 and 5
\* exactly when end_date is after today, and one observed indicator exactly
\* when start_date is before today (3 for France, 2 otherwise); each at most
\* once, no other indicator, and nothing when neither condition holds.
C22_WeatherIndicators ==
    BuilderReturned =>
      /\ 4 \in Range(result) <=> args.end_date > args.today
      /\ 5 \in Range(result) <=> args.end_date > args.today
      /\ 3 \in Range(result) <=> (args.start_date < args.today /\ args.isFrance)
      /\ 2 \in Range(result) <=> (args.start_date < args.today /\ ~args.isFrance)
      /\ Range(result) \subseteq {2, 3, 4, 5}
      /\ Len(result) = Cardinality(Range(result))
      /\ (args.end_date <= args.today /\ args.start_date >= args.today) =>
           result = <<>>

\* C22 witness: a block of France, started before today and ending after it,
\* got the forecast indicators and the observed indicator 3.
C22_Witness ==
    /\ BuilderReturned
    /\ args.isFrance
    /\ args.start_date < args.today /\ args.today < args.end_date
    /\ result = <<4, 5, 3>>


GetTimeSeries == op = "get_time_series"

\* the existence check of the season field was answered with a refusal
SeasonFieldRefused ==
    \E i \in DOMAIN requests :
      requests[i].kind = "mdm_get" /\ responses[i] # 200

TimeSeriesQueried ==
    \E i \in DOMAIN requests : requests[i].kind \in {"vts_modis", "weather"}

\* C23: get_time_series raises ValueError before any request for a weather
\* collection without polygon, for the low resolution collection with
\* neither polygon nor season_field_id, and for every collection that is
\* neither weather nor low resolution; and it raises ValueError without
\* querying the time series when the existence check rejects the
\* season_field_id.
C23_TimeSeriesDispatch ==
    GetTimeSeries =>
      /\ (args.collection \in WeatherTypeCollection /\ Not(polygon)) =>
           pc = "raised" /\ error = "ValueError" /\ requests = <<>>
      /\ (args.collection \in LR_SATELLITE_COLLECTION /\ NeitherSupplied) =>
           pc = "raised" /\ error = "ValueError" /\ requests = <<>>
      /\ (args.collection \notin
            WeatherTypeCollection \cup LR_SATELLITE_COLLECTION) =>
           pc = "raised" /\ error = "ValueError" /\ requests = <<>>
      /\ SeasonFieldRefused =>
           pc = "raised" /\ error = "ValueError" /\ ~TimeSeriesQueried

\* C23 witness: the existence check rejected the season field of a low
\* resolution call.
C23_Witness ==
    /\ GetTimeSeries
    /\ args.collection = "MODIS"
    /\ SeasonFieldRefused
    /\ pc = "raised"

Constructed == op = "Oauth2Api" /\ pc \in {"returned", "raised"}

TokenRequests == SelectSeq(requests, LAMBDA r : r.kind = "token")

\* C24: the construction of Oauth2Api never raises; with a bearer token no
\* token request is made and the token is that bearer token; without one
\* exactly one token request is made, and when it fails the token stays
\* None.
C24_ConstructionNeverRaises ==
    Constructed =>
      /\ pc = "returned"
      /\ ~Not(args.bearer_token) =>
           /\ requests = <<>>
           /\ result = <<"access_token", args.bearer_token>>
      /\ Not(args.bearer_token) =>
           /\ requests = <<TokenRequest>>
           /\ responses[1] # 200 => result = <<>>

\* C24 witness: the token request failed and the object was constructed
\* with no token.
C24_Witness ==
    /\ Constructed
    /\ pc = "returned"
    /\ requests = <<TokenRequest>>
    /\ responses[1] # 200
    /\ result = <<>>

\* the catalog query of a time-series call failed: a status other than 200,
\* or an exception in place of the response
CatalogQueryFailed ==
    /\ TimeSeries
    /\ \E i \in DOMAIN requests :
         requests[i].kind = CatalogRequest.kind /\ responses[i] # 200

\* C25: when the catalog query fails, no raster download is requested and
\* no dataset is returned: the call ends in an exception.
C25_NoDownloadAfterFailedCatalog ==
    CatalogQueryFailed =>
      /\ pc = "raised"
      /\ TiffLog = <<>>
      /\ ret = ""
      /\ dataset = EmptyDataset

\* C25 witness: the catalog answered with an error status and the call
\* raised without a download.
C25_Witness ==
    /\ CatalogQueryFailed
    /\ 500 \in Range(responses)
    /\ pc = "raised"
    /\ error = "AttributeError"
    /\ TiffLog = <<>>

\* the status requests sent so far
EventsLog == SelectSeq(requests, LAMBDA r : r.kind = "events")

\* the task status is being waited for, directly or in a method of Geosys
Waiting == Polling \/ (op \in AnalyticsCalls /\ EventsLog # <<>>)

\* C26: wait_and_check_task_status terminates: every attempt sends exactly
\* one status request, at most stop_max_attempt_number attempts are made, a
\* task that keeps Running ends in the error of the last attempt, and a
\* status that is neither Ended nor Running raises at once without a retry.
C26_PollingTerminates ==
    Waiting =>
      /\ Len(EventsLog) = attempt_number
      /\ attempt_number <= stop_max_attempt_number
      /\ pc = "poll" => attempt_number < stop_max_attempt_number
      /\ (pc = "poll" /\ attempt_number > 0) => task_status = "Running"
      /\ (pc = "raised" /\ error = "KeyError") =>
           /\ attempt_number = stop_max_attempt_number
           /\ task_status = "Running"
      /\ task_status \notin {"", "Ended", "Running"} =>
           pc = "raised" /\ error = "Exception"

\* C26 witness: the task was Running at every one of the
\* stop_max_attempt_number attempts and the last KeyError came out.
C26_Witness ==
    /\ Polling
    /\ pc = "raised"
    /\ error = "KeyError"
    /\ Len(EventsLog) = stop_max_attempt_number

\* C27: one call of a wrapped HttpClient method sends the request at most
\* twice and renews the token at most once; a TokenExpiredError of the
\* second attempt propagates; an exception of the first attempt other than
\* TokenExpiredError propagates with no renewal and no second attempt.
C27_AtMostOneRenewal ==
    HttpCall =>
      /\ Len(attempts) \in {1, 2}
      /\ access_token \in {session_token, get_refresh_token}
      /\ access_token # session_token =>
           Len(attempts) = 2 /\ attempts[1].outcome = "TokenExpiredError"
      /\ Len(attempts) = 2 =>
           /\ attempts[1].outcome = "TokenExpiredError"
           /\ attempts[2].outcome # "Response" =>
                pc = "raised" /\ error = attempts[2].outcome
      /\ attempts[1].outcome \notin {"Response", "TokenExpiredError"} =>
           /\ pc = "raised"
           /\ error = attempts[1].outcome
           /\ Len(attempts) = 1
           /\ access_token = session_token

\* C27 witness: the first attempt failed with an exception that is not
\* TokenExpiredError, and it came out of the call as it was.
C27_Witness ==
    /\ HttpCall
    /\ attempts = <<[token |-> session_token, outcome |-> "ConnectionError"]>>
    /\ pc = "raised"
    /\ error = "ConnectionError"

\* the body of get_weather runs with a member of WeatherTypeCollection
WeatherAccepted == pc = "weather" /\ args.collection \in WeatherTypeCollection

\* C28: across any sequence of get_weather calls given the same fields list,
\* the list changes only in a call whose weather_type is accepted and that
\* finds 'Date' absent, and then by 'Date' appended at the end: so at most
\* once, and never in a call that finds 'Date' present or is rejected.
C28_DateAppendedOnce ==
    [][fields' = IF WeatherAccepted /\ "Date" \notin Range(fields)
                 THEN Append(fields, "Date")
                 ELSE fields]_vars

\* C28 witness: a call has returned and the caller's longest list ends with
\* the appended 'Date'.
C28_Witness ==
    /\ op = "get_weather"
    /\ pc = "returned"
    /\ Len(fields) = MaxFields + 1
    /\ fields[Len(fields)] = "Date"

\* the service answered get_metrics with 200 and no metrics
NoMetricsFound ==
    /\ op = "get_metrics"
    /\ pc \in {"returned", "raised"}
    /\ responses = <<200>>
    /\ result = <<>>

\* C29: get_metrics returns an empty dataframe without raising whenever the
\* service answers 200 with no metrics, whichever of start_date and end_date
\* are None.
C29_EmptyMetricsReturned ==
    NoMetricsFound => pc = "returned" /\ ret = "DataFrame" /\ error = ""

\* C30: extract_season_field_id has three outcomes: the id of the body for
\* 201, the id parsed from the message for 400 with a sowingDate error, and
\* ValueError for every other response; it ends in no other exception and
\* without a value in no other way.
C30_ThreeOutcomes ==
    \A i \in DOMAIN requests :
      requests[i].kind = "mdm_create" =>
        CASE responses[i] = 201 -> season_field_id = "sf1"
          [] responses[i] = 400 ->
               \/ season_field_id = "sf1"
               \/ /\ i = Len(requests)
                  /\ pc = "raised"
                  /\ error = "ValueError"
          [] OTHER ->
               /\ i = Len(requests)
               /\ pc = "raised"
               /\ error = "ValueError"

=============================================================================
